---- MODULE Spec2Model ----
(***************************************************************************)
(* A model of memchat: the sandboxed memory tools (src/memchat/tools.py),   *)
(* the orchestrator that runs a baseline and a memory-augmented chat       *)
(* (src/memchat/orchestrator.py), its command line (src/memchat/cli.py),   *)
(* the start of its interactive UI and the chat run the UI makes           *)
(* (src/memchat/tui.py), and the upload of files into the memory           *)
(* directory (src/app.py).                                                 *)
(*                                                                         *)
(* Python strings are modelled as sequences of pieces, so that formatting  *)
(* is concatenation: a piece is a literal, or a path given by the model.   *)
(* The filesystem is a function from absolute canonical locations          *)
(* (sequences of names, <<>> being "/") to nodes.                          *)
(***************************************************************************)
EXTENDS Integers, Sequences, FiniteSets, TLC

VARIABLES
    fs,                 \* the filesystem
    MEM_DIR,            \* tools.MEM_DIR, the process-wide memory root
    t_call,             \* SpecTools: the tool call being made
    t_out,              \* SpecTools: what that call returned or raised
    pc,                 \* chat_run: where the run is ("raised": it raised)
    entry,              \* how the run was started: "chat_run", "_run_headless", "run_tui"
    memory_dir,         \* chat_run: the memory_dir argument
    baseline_response,  \* chat_run: local of that name
    augmented_response, \* chat_run: local of that name
    messages,           \* _run_augmented_chat: local of that name
    tool_events,        \* _run_augmented_chat: local of that name
    response_message,   \* _run_augmented_chat: the first assistant message
    final_message,      \* _run_augmented_chat: the follow-up assistant message
    idx,                \* _run_augmented_chat: position of the for loop
    backend_log,        \* the backend: every request it received, in order
    clock,              \* datetime.now()
    runs                \* SpecConcurrent: the locals of each chat_run in progress

vars == <<fs, MEM_DIR, t_call, t_out, pc, entry, memory_dir, baseline_response,
          augmented_response, messages, tool_events, response_message,
          final_message, idx, backend_log, clock, runs>>

toolVars == <<t_call, t_out>>
runVars == <<pc, entry, memory_dir, baseline_response, augmented_response, messages,
             tool_events, response_message, final_message, idx, backend_log, clock>>

----------------------------------------------------------------------------
(* Bounds of the model *)

\* longest path argument, in segments
MaxPathLen == 3
\* most tool call requests in one assistant message
MaxToolCalls == 2

----------------------------------------------------------------------------
(* Python values *)

\* a path value that is not a string at all (None, or the key is absent)
NoPath == [t |-> "null", abs |-> FALSE, segs |-> <<>>]
\* a JSON value that is truthy and no string, such as 123
NumPath == [t |-> "num", abs |-> FALSE, segs |-> <<>>]
\* the string "/".join(segs), with a leading "/" when abs
StrPath(abs, segs) == [t |-> "str", abs |-> abs, segs |-> segs]

\* pieces of a Python string
Lit(s) == [k |-> "lit", lit |-> s, path |-> NoPath, chars |-> <<>>]
PathPiece(p) == [k |-> "path", lit |-> "", path |-> p, chars |-> <<>>]
\* a text read from a file, as its code points
TextPiece(chars) == [k |-> "text", lit |-> "", path |-> NoPath, chars |-> chars]
\* Python's None, where a string or None is expected
None == <<[k |-> "None", lit |-> "", path |-> NoPath, chars |-> <<>>]>>
\* the empty string
EmptyStr == <<>>

\* Python truthiness of a string-or-None value: None and "" are falsy
Truthy(s) == s # None /\ s # EmptyStr
\* `s or ""`
OrEmpty(s) == IF Truthy(s) THEN s ELSE EmptyStr

\* PathTruthy that lets every value through, None included
PathTruthyAlways(p) == TRUE

\* Python truthiness of the value found under "path"
PathTruthy(p) ==
    \/ p.t = "num"
    \/ p.t = "str" /\ (p.abs \/ p.segs # <<>>)

----------------------------------------------------------------------------
(* Names and their characters *)

\* the code points of a name: str.startswith and sorted() work on these
NameCodes(n) ==
    CASE n = "a"  -> <<97>>
      [] n = "d"  -> <<100>>
      [] n = "l"  -> <<108>>
      [] n = "m"  -> <<109>>
      [] n = "s"  -> <<115>>
      [] n = "x"  -> <<120>>
      [] n = "zz" -> <<122, 122>>
      [] n = ".h" -> <<46, 104>>
      [] n = ".hd" -> <<46, 104, 100>>
      [] n = "."  -> <<46>>
      [] n = ".." -> <<46, 46>>

\* filename.startswith(".")
StartsWithDot(n) == Head(NameCodes(n)) = 46

RECURSIVE StrCodes(_)
\* the code points of str(relative_path): names joined by "/"
StrCodes(segs) ==
    IF segs = <<>> THEN <<>>
    ELSE IF Len(segs) = 1 THEN NameCodes(segs[1])
    ELSE NameCodes(segs[1]) \o <<47>> \o StrCodes(Tail(segs))

RECURSIVE CodesLess(_, _)
\* Python's str < str: lexicographic on code points
CodesLess(a, b) ==
    IF b = <<>> THEN FALSE
    ELSE IF a = <<>> THEN TRUE
    ELSE IF Head(a) # Head(b) THEN Head(a) < Head(b)
    ELSE CodesLess(Tail(a), Tail(b))

----------------------------------------------------------------------------
(* Text files: Path.write_text and Path.read_text, encoding utf-8 *)

CR == 13
LF == 10

\* os.linesep on POSIX
LineSep == <<LF>>

RECURSIVE TranslateOnWrite(_)
\* text mode, newline=None, writing: every "\n" becomes os.linesep
TranslateOnWrite(chars) ==
    IF chars = <<>> THEN <<>>
    ELSE (IF Head(chars) = LF THEN LineSep ELSE <<Head(chars)>>)
         \o TranslateOnWrite(Tail(chars))

RECURSIVE Utf8Encode(_)
\* str.encode("utf-8") for code points below 2048: one byte, or two
Utf8Encode(chars) ==
    IF chars = <<>> THEN <<>>
    ELSE LET c == Head(chars)
         IN  (IF c < 128 THEN <<c>> ELSE <<192 + (c \div 64), 128 + (c % 64)>>)
             \o Utf8Encode(Tail(chars))

RECURSIVE Utf8Decode(_)
\* bytes.decode("utf-8"), strict: a byte below 128 is a character, a lead byte
\* 194..223 takes one continuation byte 128..191, anything else in the model is
\* an invalid start byte or an invalid continuation byte
Utf8Decode(bytes) ==
    IF bytes = <<>> THEN [ok |-> TRUE, chars |-> <<>>]
    ELSE LET b == Head(bytes)
         IN  IF b < 128
             THEN LET rest == Utf8Decode(Tail(bytes))
                  IN  [ok |-> rest.ok, chars |-> <<b>> \o rest.chars]
             ELSE IF /\ b >= 194 /\ b <= 223 /\ Len(bytes) >= 2
                     /\ bytes[2] >= 128 /\ bytes[2] <= 191
             THEN LET rest == Utf8Decode(Tail(Tail(bytes)))
                  IN  [ok |-> rest.ok,
                       chars |-> <<(b - 192) * 64 + (bytes[2] - 128)>> \o rest.chars]
             ELSE [ok |-> FALSE, chars |-> <<>>]

RECURSIVE UniversalNewlines(_)
\* text mode, newline=None, reading: "\r\n" and a lone "\r" become "\n"
UniversalNewlines(chars) ==
    IF chars = <<>> THEN <<>>
    ELSE IF Head(chars) = CR
    THEN IF Len(chars) >= 2 /\ chars[2] = LF
         THEN <<LF>> \o UniversalNewlines(Tail(Tail(chars)))
         ELSE <<LF>> \o UniversalNewlines(Tail(chars))
    ELSE <<Head(chars)>> \o UniversalNewlines(Tail(chars))

\* the bytes Path.write_text(chars, encoding="utf-8") leaves in the file
WriteTextBytes(chars) == Utf8Encode(TranslateOnWrite(chars))

\* what Path.read_text(encoding="utf-8") gives for a file that holds bytes
ReadText(bytes) ==
    LET decoded == Utf8Decode(bytes)
    IN  [ok |-> decoded.ok, chars |-> UniversalNewlines(decoded.chars)]

\* the texts written to files in the model: " \u00e9\n" and "c\r\na"
Texts == {<<32, 233, LF>>, <<99, CR, LF, 97>>}

\* bytes that are no UTF-8: "c" and the byte 0xff
InvalidBytes == <<99, 255>>

\* what the file a of the memory root may hold
FileContents == {WriteTextBytes(t) : t \in Texts} \cup {InvalidBytes}

\* a text without line ends, as write_text leaves it
Bytes(chars) == WriteTextBytes(chars)

----------------------------------------------------------------------------
(* The filesystem *)

\* a file holds bytes
DirNode == [kind |-> "dir", bytes |-> <<>>, target |-> <<>>]
FileNode(bytes) == [kind |-> "file", bytes |-> bytes, target |-> <<>>]
LinkNode(target) == [kind |-> "link", bytes |-> <<>>, target |-> target]

Parent(p) == IF p = <<>> THEN <<>> ELSE SubSeq(p, 1, Len(p) - 1)

IsPrefix(p, q) == Len(p) <= Len(q) /\ SubSeq(q, 1, Len(p)) = p

\* what lies outside every memory root of the model: "/" and the file /s
OutsideTree == (<<>> :> DirNode) @@ (<<"s">> :> FileNode(Bytes(<<83>>)))

\* a populated memory root /m: a, d/a, the hidden .h, a inside the hidden
\* directory .hd, and the symlink l when link says where it points
InsideTree(content, link) ==
    (<<"m">> :> DirNode)
    @@ (<<"m", "a">> :> FileNode(content))
    @@ (<<"m", "d">> :> DirNode)
    @@ (<<"m", "d", "a">> :> FileNode(Bytes(<<100, 97>>)))
    @@ (<<"m", ".h">> :> FileNode(Bytes(<<104>>)))
    @@ (<<"m", ".hd">> :> DirNode)
    @@ (<<"m", ".hd", "a">> :> FileNode(Bytes(<<104, 100, 97>>)))
    @@ (IF link = "none" THEN << >>
        ELSE <<"m", "l">> :> LinkNode(
               CASE link = "outfile" -> <<"s">>
                 [] link = "infile"  -> <<"m", "a">>
                 [] link = "outdir"  -> <<>>
                 [] link = "broken"  -> <<"zz">>))

LinkKinds == {"none", "outfile", "infile", "outdir", "broken"}

\* the directory trees the model starts from; none holds a symlink loop
FsConfigs ==
    {OutsideTree}
    \cup {OutsideTree @@ InsideTree(c, l) : c \in FileContents, l \in LinkKinds}

\* the memory roots the model is configured with; /x never exists
MemDirs == {<<"m">>, <<"x", "m">>}

----------------------------------------------------------------------------
(* pathlib and os on that filesystem *)

\* PurePosixPath(str): "." segments and empty segments are dropped, ".." is kept
Parts(p) == SelectSeq(p.segs, LAMBDA s : s # ".")

\* MEM_DIR / path: an absolute right operand replaces the left one
JoinPath(memdir, p) == IF p.abs THEN Parts(p) ELSE memdir \o Parts(p)

RECURSIVE JoinRealpath(_, _, _)
\* posixpath._joinrealpath, strict=False: `path` is resolved so far, `rest` is to
\* come. ".." pops the resolved path, a component that lstat cannot find is
\* kept as written, a symlink is replaced by its resolved target.
JoinRealpath(f, path, rest) ==
    IF rest = <<>> THEN path
    ELSE LET name == Head(rest)
             newpath == Append(path, name)
         IN  IF name = ".." THEN JoinRealpath(f, Parent(path), Tail(rest))
             ELSE IF newpath \notin DOMAIN f THEN JoinRealpath(f, newpath, Tail(rest))
             ELSE IF f[newpath].kind # "link" THEN JoinRealpath(f, newpath, Tail(rest))
             ELSE JoinRealpath(f, JoinRealpath(f, <<>>, f[newpath].target), Tail(rest))

\* Path.resolve() of an absolute path
Resolve(f, segs) == JoinRealpath(f, <<>>, segs)

\* a name of 300 characters, longer than NAME_MAX
LongName == "x*300"

\* the outcome of a path walk that fails, with the errno the kernel gives
WalkError(err) == [ok |-> FALSE, loc |-> <<>>, err |-> err]

RECURSIVE Lookup(_, _, _)
\* the kernel's path walk, following symlinks: the location a path names, or
\* ENOTDIR when a name is looked up in what is no directory, ENAMETOOLONG when
\* the name is too long, ENOENT when it is not there
Lookup(f, cur, rest) ==
    IF rest = <<>> THEN [ok |-> TRUE, loc |-> cur, err |-> ""]
    ELSE IF f[cur].kind # "dir" THEN WalkError("ENOTDIR")
    ELSE LET name == Head(rest)
             new == Append(cur, name)
         IN  IF name = ".." THEN Lookup(f, Parent(cur), Tail(rest))
             ELSE IF name = LongName THEN WalkError("ENAMETOOLONG")
             ELSE IF new \notin DOMAIN f THEN WalkError("ENOENT")
             ELSE IF f[new].kind # "link" THEN Lookup(f, new, Tail(rest))
             ELSE LET t == Lookup(f, <<>>, f[new].target)
                  IN  IF t.ok THEN Lookup(f, t.loc, Tail(rest)) ELSE t

\* os.stat(path)
Stat(f, segs) == Lookup(f, <<>>, segs)

\* Path.exists(): False for ENOENT and ENOTDIR
Exists(f, segs) == Stat(f, segs).ok

\* Path.exists() raises the OSError os.stat gave: ENAMETOOLONG is not among the
\* errors pathlib takes for "does not exist"
ExistsRaises(f, segs) == Stat(f, segs).err = "ENAMETOOLONG"

\* Path.is_file()
IsFile(f, segs) == Stat(f, segs).ok /\ f[Stat(f, segs).loc].kind = "file"

\* Path.is_dir(), DirEntry.is_dir(): both follow symlinks
IsDir(f, segs) == Stat(f, segs).ok /\ f[Stat(f, segs).loc].kind = "dir"

\* resolved.relative_to(root) does not raise ValueError
RelativeTo(resolved, root) == IsPrefix(root, resolved)

Returned(v) == [exc |-> "", val |-> v]
Raised(e, msg) == [exc |-> e, val |-> msg]

\* the OSError subclass Python raises for an errno
OSErrorOf(err) ==
    CASE err = "ENOENT" ->
           Raised("FileNotFoundError", <<Lit("[Errno 2] No such file or directory")>>)
      [] err = "ENOTDIR" ->
           Raised("NotADirectoryError", <<Lit("[Errno 20] Not a directory")>>)
      [] err = "EEXIST" ->
           Raised("FileExistsError", <<Lit("[Errno 17] File exists")>>)
      [] err = "EISDIR" ->
           Raised("IsADirectoryError", <<Lit("[Errno 21] Is a directory")>>)
      [] err = "ENAMETOOLONG" ->
           Raised("OSError", <<Lit("[Errno 36] File name too long")>>)

\* what Path(segs).mkdir(exist_ok=True) returns or raises: a directory that is
\* there is left alone; else os.mkdir walks to the parent, which has to be a
\* directory, and anything of that name, a dangling symlink too, is in the way
mkdir(f, segs) ==
    LET parent == Stat(f, Parent(segs))
        name == segs[Len(segs)]
    IN  IF IsDir(f, segs) THEN Returned(<<>>)
        ELSE IF ~parent.ok THEN OSErrorOf(parent.err)
        ELSE IF f[parent.loc].kind # "dir" THEN OSErrorOf("ENOTDIR")
        ELSE IF name = LongName THEN OSErrorOf("ENAMETOOLONG")
        ELSE IF Append(parent.loc, name) \in DOMAIN f THEN OSErrorOf("EEXIST")
        ELSE Returned(<<>>)

\* the filesystem after Path(segs).mkdir(exist_ok=True)
MkdirFs(f, segs) ==
    IF mkdir(f, segs).exc = "" /\ ~IsDir(f, segs)
    THEN f @@ (Append(Stat(f, Parent(segs)).loc, segs[Len(segs)]) :> DirNode)
    ELSE f

RECURSIVE MkdirParents(_, _)
RECURSIVE MkdirParentsFs(_, _)
\* what Path(segs).mkdir(parents=True, exist_ok=True) returns or raises: on
\* FileNotFoundError the parent is made the same way, its own parents
\* included, and the directory is then made without parents
MkdirParents(f, segs) ==
    IF mkdir(f, segs).exc # "FileNotFoundError" \/ segs = <<>> THEN mkdir(f, segs)
    ELSE IF MkdirParents(f, Parent(segs)).exc # "" THEN MkdirParents(f, Parent(segs))
    ELSE mkdir(MkdirParentsFs(f, Parent(segs)), segs)

\* the filesystem after Path(segs).mkdir(parents=True, exist_ok=True); the
\* parents it made stay when a later step fails
MkdirParentsFs(f, segs) ==
    IF mkdir(f, segs).exc # "FileNotFoundError" \/ segs = <<>> THEN MkdirFs(f, segs)
    ELSE IF MkdirParents(f, Parent(segs)).exc # "" THEN MkdirParentsFs(f, Parent(segs))
    ELSE MkdirFs(MkdirParentsFs(f, Parent(segs)), segs)

RECURSIVE OpenForWrite(_, _)
\* os.open(segs, O_WRONLY | O_CREAT | O_TRUNC), as open(segs, "wb") makes it:
\* the location of the file that is truncated or created, or the errno. The
\* kernel walks to the parent, which has to be a directory; a symlink of that
\* name is followed to what it points to, which is created when it is not
\* there; a directory cannot be written.
OpenForWrite(f, segs) ==
    IF segs = <<>> THEN WalkError("EISDIR")
    ELSE LET parent == Stat(f, Parent(segs))
             name == segs[Len(segs)]
             new == Append(parent.loc, name)
         IN  IF ~parent.ok THEN parent
             ELSE IF f[parent.loc].kind # "dir" THEN WalkError("ENOTDIR")
             ELSE IF name = ".." THEN WalkError("EISDIR")
             ELSE IF name = LongName THEN WalkError("ENAMETOOLONG")
             ELSE IF new \notin DOMAIN f THEN [ok |-> TRUE, loc |-> new, err |-> ""]
             ELSE IF f[new].kind = "link" THEN OpenForWrite(f, f[new].target)
             ELSE IF f[new].kind = "dir" THEN WalkError("EISDIR")
             ELSE [ok |-> TRUE, loc |-> new, err |-> ""]

\* what open(segs, "wb") followed by write(bytes) returns or raises
WriteBytes(f, segs) ==
    IF OpenForWrite(f, segs).ok THEN Returned(<<>>)
    ELSE OSErrorOf(OpenForWrite(f, segs).err)

\* the filesystem after open(segs, "wb") and write(bytes): nothing is written
\* when open raised
WriteBytesFs(f, segs, bytes) ==
    IF ~OpenForWrite(f, segs).ok THEN f
    ELSE LET loc == OpenForWrite(f, segs).loc
         IN  [q \in DOMAIN f \cup {loc} |-> IF q = loc THEN FileNode(bytes) ELSE f[q]]

----------------------------------------------------------------------------
(* src/memchat/tools.py *)

\* the non-directory entries os.walk(top) reports: those of top and of every
\* real directory below it (a symlink to a directory is not descended into)
WalkFiles(f, top) ==
    IF ~IsDir(f, top) THEN {}
    ELSE LET t == Stat(f, top).loc
         IN  {p \in DOMAIN f :
                /\ p # <<>>
                /\ IsPrefix(t, Parent(p))
                /\ ~IsDir(f, p)}

RECURSIVE SortedStrs(_)
\* sorted(files) for a set of relative paths, ordered as Python orders str
SortedStrs(S) ==
    IF S = {} THEN <<>>
    ELSE LET least == CHOOSE x \in S :
                        \A y \in S \ {x} : CodesLess(StrCodes(x), StrCodes(y))
         IN  <<least>> \o SortedStrs(S \ {least})

\* what list_memory_files returns or raises; ListFs is the filesystem it leaves
list_memory_files(f, memdir) ==
    IF ExistsRaises(f, memdir) THEN OSErrorOf("ENAMETOOLONG")
    ELSE IF ~Exists(f, memdir)
    THEN \* MEM_DIR.mkdir(exist_ok=True)
         mkdir(f, memdir)
    ELSE LET t == Stat(f, memdir).loc
             rel == {SubSeq(p, Len(t) + 1, Len(p)) :
                       p \in {q \in WalkFiles(f, memdir) : ~StartsWithDot(q[Len(q)])}}
             sorted == SortedStrs(rel)
         IN  Returned([i \in 1..Len(sorted) |-> StrPath(FALSE, sorted[i])])

\* the filesystem after list_memory_files: the root is created when absent
ListFs(f, memdir) ==
    IF ~Exists(f, memdir) THEN MkdirFs(f, memdir) ELSE f

\* read_memory_file with the sandbox check made on the path as written,
\* without resolving it
read_memory_file_unresolved(f, memdir, path) ==
    IF path.t # "str"
    THEN Raised("TypeError", <<Lit("unsupported operand type(s) for /")>>)
    ELSE LET file_path == JoinPath(memdir, path)
         IN  IF ~RelativeTo(file_path, memdir)
             THEN Raised("ValueError",
                         <<Lit("Path outside memory directory: "), PathPiece(path)>>)
             ELSE IF ExistsRaises(f, file_path)
             THEN Raised("OSError", <<Lit("[Errno 36] File name too long")>>)
             ELSE IF ~Exists(f, file_path)
             THEN Raised("FileNotFoundError",
                         <<Lit("Memory file not found: "), PathPiece(path)>>)
             ELSE IF ~IsFile(f, file_path)
             THEN Raised("ValueError", <<Lit("Path is not a file: "), PathPiece(path)>>)
             ELSE IF ~ReadText(f[Stat(f, file_path).loc].bytes).ok
             THEN Raised("UnicodeDecodeError",
                         <<Lit("'utf-8' codec can't decode byte: File "), PathPiece(path),
                           Lit(" is not valid UTF-8: invalid start byte")>>)
             ELSE Returned(<<TextPiece(ReadText(f[Stat(f, file_path).loc].bytes).chars)>>)

\* read_memory_file from line 48 on: file_path is MEM_DIR / path as line 44
\* made it, memdir is MEM_DIR as line 48 reads it again
read_memory_file_from(f, file_path, memdir, path) ==
    IF ~RelativeTo(Resolve(f, file_path), Resolve(f, memdir))
    THEN Raised("ValueError",
                <<Lit("Path outside memory directory: "), PathPiece(path)>>)
    ELSE IF ExistsRaises(f, file_path)
    THEN Raised("OSError", <<Lit("[Errno 36] File name too long")>>)
    ELSE IF ~Exists(f, file_path)
    THEN Raised("FileNotFoundError",
                <<Lit("Memory file not found: "), PathPiece(path)>>)
    ELSE IF ~IsFile(f, file_path)
    THEN Raised("ValueError", <<Lit("Path is not a file: "), PathPiece(path)>>)
    ELSE IF ~ReadText(f[Stat(f, file_path).loc].bytes).ok
    THEN Raised("UnicodeDecodeError",
                <<Lit("'utf-8' codec can't decode byte: File "), PathPiece(path),
                  Lit(" is not valid UTF-8: invalid start byte")>>)
    ELSE Returned(<<TextPiece(ReadText(f[Stat(f, file_path).loc].bytes).chars)>>)

\* what read_memory_file(path) returns or raises when MEM_DIR is memdir
\* throughout the call
read_memory_file(f, memdir, path) ==
    IF path.t # "str"
    THEN Raised("TypeError", <<Lit("unsupported operand type(s) for /")>>)
    ELSE read_memory_file_from(f, JoinPath(memdir, path), memdir, path)

\* the parsed arguments of a tool call: a JSON object, with or without "path",
\* or a JSON value that is no object
DictArgs(has, p) == [dict |-> TRUE, has_path |-> has, path |-> p]
NonDictArgs == [dict |-> FALSE, has_path |-> FALSE, path |-> NoPath]
EmptyArgs == DictArgs(FALSE, NoPath)

RECURSIVE BulletLines(_)
\* "\n".join(f"- {file}" for file in files)
BulletLines(files) ==
    IF files = <<>> THEN <<>>
    ELSE IF Len(files) = 1 THEN <<Lit("- "), PathPiece(files[1])>>
    ELSE <<Lit("- "), PathPiece(files[1]), Lit("\n")>> \o BulletLines(Tail(files))

\* the exceptions execute_tool_call catches around read_memory_file
CaughtByExecute == {"FileNotFoundError", "ValueError", "UnicodeDecodeError"}

\* execute_tool_call, lines 110-114: what it makes of what list_memory_files gave
ExecuteList(files) ==
    IF files.exc # "" THEN files
    ELSE IF files.val = <<>> THEN Returned(<<Lit("No memory files found.")>>)
    ELSE Returned(BulletLines(files.val))

\* execute_tool_call, lines 121-125: what it makes of what read_memory_file gave
ExecuteRead(path, content) ==
    IF content.exc = ""
    THEN Returned(<<Lit("Contents of "), PathPiece(path), Lit(":\n\n")>> \o content.val)
    ELSE IF content.exc \in CaughtByExecute
    THEN Returned(<<Lit("Error reading "), PathPiece(path), Lit(": ")>> \o content.val)
    ELSE content

\* what execute_tool_call(tool_name, arguments) returns or raises
execute_tool_call(f, memdir, tool_name, arguments) ==
    IF tool_name = "list_memory_files"
    THEN ExecuteList(list_memory_files(f, memdir))
    ELSE IF tool_name = "read_memory_file"
    THEN IF ~arguments.dict
         THEN Raised("AttributeError", <<Lit("object has no attribute 'get'")>>)
         ELSE LET path == arguments.path
              IN  IF ~PathTruthy(path)
                  THEN Returned(<<Lit("Error: 'path' parameter is required")>>)
                  ELSE ExecuteRead(path, read_memory_file(f, memdir, path))
    ELSE Returned(<<Lit("Error: Unknown tool '"), Lit(tool_name), Lit("'")>>)

\* ExecuteFs of a registry that makes sure of the root before it looks at the
\* tool name
ExecuteFsCreatesRoot(f, memdir, tool_name) == ListFs(f, memdir)

\* the filesystem after execute_tool_call
ExecuteFs(f, memdir, tool_name) ==
    IF tool_name = "list_memory_files" THEN ListFs(f, memdir) ELSE f

----------------------------------------------------------------------------
(* Inputs *)

\* the segments a path argument is made of
Segs == {"..", ".", "m", "a", "d", "l", "s"}

RECURSIVE SeqsUpTo(_, _)
\* the sequences over S of length at most n
SeqsUpTo(S, n) ==
    IF n = 0 THEN {<<>>}
    ELSE LET shorter == SeqsUpTo(S, n - 1)
         IN  shorter \cup {Append(q, x) : q \in {r \in shorter : Len(r) = n - 1}, x \in S}

\* paths with a name that is too long: in the root, in a directory, above the
\* root, left again by "..", and below a file
LongPaths ==
    {StrPath(FALSE, segs) :
        segs \in {<<LongName>>, <<"d", LongName>>, <<"..", LongName>>,
                  <<LongName, "..", "a">>, <<"a", LongName>>}}

\* the path strings the model can send
PathArgs ==
    {StrPath(abs, segs) : abs \in BOOLEAN, segs \in SeqsUpTo(Segs, MaxPathLen)}
    \cup LongPaths

\* the values the model can send under "path"
PathVals == PathArgs \cup {NoPath, NumPath}

\* the argument values the model can send
ArgValues == {NonDictArgs, EmptyArgs} \cup {DictArgs(TRUE, p) : p \in PathVals}

\* the two registered tools and two names that are not registered
ToolNames == {"list_memory_files", "read_memory_file", "delete_file", "READ_MEMORY_FILE"}

----------------------------------------------------------------------------
(* The tools called directly, as the tests do *)

NoCall == [fn |-> "", tool_name |-> "", arguments |-> NonDictArgs]
NoOutcome == Returned(<<>>)

RunOff ==
    /\ pc = "off"
    /\ entry = "chat_run"
    /\ memory_dir = [given |-> FALSE, dir |-> <<>>]
    /\ baseline_response = None
    /\ augmented_response = None
    /\ messages = <<>>
    /\ tool_events = <<>>
    /\ response_message = [content |-> None, tool_calls |-> <<>>]
    /\ final_message = [content |-> None, tool_calls |-> <<>>]
    /\ idx = 0
    /\ backend_log = <<>>
    /\ clock = 0

InitTools ==
    /\ fs \in FsConfigs
    /\ MEM_DIR \in MemDirs
    /\ t_call = NoCall
    /\ t_out = NoOutcome
    /\ RunOff
    /\ runs = <<>>

\* execute_tool_call(tool_name, arguments); a tool that takes no argument is
\* called with {} or with a value that is no object
ExecuteToolCall ==
    /\ t_call = NoCall
    /\ \E tool_name \in ToolNames :
         \E arguments \in IF tool_name = "read_memory_file" THEN ArgValues
                          ELSE {NonDictArgs, EmptyArgs} :
            /\ t_call' = [fn |-> "execute_tool_call", tool_name |-> tool_name,
                          arguments |-> arguments]
            /\ t_out' = execute_tool_call(fs, MEM_DIR, tool_name, arguments)
            /\ fs' = ExecuteFs(fs, MEM_DIR, tool_name)
    /\ UNCHANGED <<MEM_DIR, runVars, runs>>

\* read_memory_file that makes sure of the root first, as list_memory_files does
ReadMemoryFileCreatesRoot ==
    /\ t_call = NoCall
    /\ \E path \in PathArgs :
         /\ t_call' = [fn |-> "read_memory_file", tool_name |-> "read_memory_file",
                       arguments |-> DictArgs(TRUE, path)]
         /\ t_out' = read_memory_file(fs, MEM_DIR, path)
    /\ fs' = ListFs(fs, MEM_DIR)
    /\ UNCHANGED <<MEM_DIR, runVars, runs>>

\* read_memory_file(path)
ReadMemoryFile ==
    /\ t_call = NoCall
    /\ \E path \in PathArgs :
         /\ t_call' = [fn |-> "read_memory_file", tool_name |-> "read_memory_file",
                       arguments |-> DictArgs(TRUE, path)]
         /\ t_out' = read_memory_file(fs, MEM_DIR, path)
    /\ UNCHANGED <<fs, MEM_DIR, runVars, runs>>

\* list_memory_files()
ListMemoryFiles ==
    /\ t_call = NoCall
    /\ t_call' = [fn |-> "list_memory_files", tool_name |-> "list_memory_files",
                  arguments |-> EmptyArgs]
    /\ t_out' = list_memory_files(fs, MEM_DIR)
    /\ fs' = ListFs(fs, MEM_DIR)
    /\ UNCHANGED <<MEM_DIR, runVars, runs>>

\* (MEM_DIR / "a").write_text(chars), as the tests fill the memory directory:
\* the file is created or overwritten
WriteText ==
    /\ t_call = NoCall
    /\ IsDir(fs, MEM_DIR)
    /\ \E chars \in Texts :
         LET loc == Append(Stat(fs, MEM_DIR).loc, "a")
         IN  /\ loc \in DOMAIN fs => fs[loc].kind = "file"
             /\ fs' = [q \in DOMAIN fs \cup {loc} |->
                         IF q = loc THEN FileNode(WriteTextBytes(chars)) ELSE fs[q]]
    /\ t_call' = [fn |-> "write_text", tool_name |-> "",
                  arguments |-> DictArgs(TRUE, StrPath(FALSE, <<"a">>))]
    /\ t_out' = NoOutcome
    /\ UNCHANGED <<MEM_DIR, runVars, runs>>

\* what save_uploaded_file(uploaded_file, memory_dir) of src/app.py returns or
\* raises for an upload of that name
save_uploaded_file(f, dir, name) ==
    LET file_path == Append(dir, name)
        made == MkdirParents(f, Parent(file_path))
        written == WriteBytes(MkdirParentsFs(f, Parent(file_path)), file_path)
    IN  IF made.exc # "" THEN made
        ELSE IF written.exc # "" THEN written
        ELSE Returned(<<PathPiece(StrPath(FALSE, <<name>>))>>)

\* the filesystem after save_uploaded_file
SaveFs(f, dir, name, bytes) ==
    LET file_path == Append(dir, name)
        made == MkdirParentsFs(f, Parent(file_path))
    IN  IF MkdirParents(f, Parent(file_path)).exc # "" THEN made
        ELSE WriteBytesFs(made, file_path, bytes)

\* save_uploaded_file(uploaded_file, MEM_DIR), as the upload page calls it: the
\* memory directory and its parents are made when absent, and the bytes of the
\* upload are written under its name. The name is a file's (or is free), a
\* directory's, or the symlink's; the bytes are those of " \u00e9\n".
SaveUploadedFile ==
    /\ t_call = NoCall
    /\ \E name \in {"a", "d", "l"}, bytes \in {<<32, 195, 169, LF>>} :
         /\ t_call' = [fn |-> "save_uploaded_file", tool_name |-> "",
                       arguments |-> DictArgs(TRUE, StrPath(FALSE, <<name>>))]
         /\ t_out' = save_uploaded_file(fs, MEM_DIR, name)
         /\ fs' = SaveFs(fs, MEM_DIR, name, bytes)
    /\ UNCHANGED <<MEM_DIR, runVars, runs>>

\* the call is over: the next one finds the filesystem this one left
ToolReturn ==
    /\ t_call # NoCall
    /\ t_call' = NoCall
    /\ t_out' = NoOutcome
    /\ UNCHANGED <<fs, MEM_DIR, runVars, runs>>

NextTools ==
    \/ ExecuteToolCall
    \/ ReadMemoryFile
    \/ ListMemoryFiles
    \/ WriteText
    \/ SaveUploadedFile
    \/ ToolReturn

SpecTools == InitTools /\ [][NextTools]_vars

----------------------------------------------------------------------------
(* The backend, as the orchestrator sees it *)

\* tool_call.function.arguments is a string: JSON for `value`, or no JSON at all
Json(value) == [json |-> TRUE, value |-> value]
NotJson == [json |-> FALSE, value |-> NonDictArgs]

\* json.loads(arguments)
json_loads(raw) ==
    IF raw.json THEN Returned(raw.value)
    ELSE Raised("JSONDecodeError", <<Lit("Expecting value: line 1 column 1 (char 0)")>>)

Request(name, raw) == [name |-> name, arguments |-> raw]

\* the tool call requests the backend makes in the model
Requests ==
    { Request("list_memory_files", Json(EmptyArgs)),
      Request("read_memory_file", Json(DictArgs(TRUE, StrPath(FALSE, <<"a">>)))),
      Request("read_memory_file", Json(DictArgs(TRUE, StrPath(FALSE, <<"zz">>)))),
      Request("read_memory_file", Json(DictArgs(TRUE, StrPath(FALSE, <<"..", "s">>)))),
      Request("read_memory_file", Json(DictArgs(TRUE, NumPath))),
      Request("read_memory_file", NotJson),
      Request("delete_file", Json(EmptyArgs)) }

\* message.tool_calls of the turn-th response: each request with its call id
ToolCalls(turn, reqs) ==
    [i \in 1..Len(reqs) |->
        [id |-> <<turn, i>>, name |-> reqs[i].name, arguments |-> reqs[i].arguments]]

\* message.content: None, "" or a text
Contents == {None, EmptyStr, <<Lit("the answer is 42")>>}

\* the assistant messages the backend can answer the initial call with; None and
\* an empty list of tool calls are both the empty sequence
FirstResponses ==
    {[content |-> c, tool_calls |-> ToolCalls(1, reqs)] :
        c \in Contents, reqs \in SeqsUpTo(Requests, MaxToolCalls)}

\* the tool call requests a follow-up answer can carry
FollowUpRequests ==
    { <<>>,
      <<Request("read_memory_file", Json(DictArgs(TRUE, StrPath(FALSE, <<"a">>))))>>,
      <<Request("list_memory_files", Json(EmptyArgs)),
        Request("read_memory_file", Json(DictArgs(TRUE, StrPath(FALSE, <<"zz">>))))>> }

\* the assistant messages the backend can answer the follow-up call with
FinalResponses ==
    {[content |-> c, tool_calls |-> ToolCalls(2, reqs)] :
        c \in Contents, reqs \in FollowUpRequests}

\* str(e) of a failed backend call
BackendError == <<Lit("Connection error.")>>

NoMessage == [content |-> None, tool_calls |-> <<>>]
NoId == <<0, 0>>

PROMPT == <<Lit("What does notes.txt say?")>>

UserMessage(prompt) ==
    [role |-> "user", content |-> prompt, tool_calls |-> <<>>, tool_call_id |-> NoId]
AssistantMessage(m) ==
    [role |-> "assistant", content |-> m.content, tool_calls |-> m.tool_calls,
     tool_call_id |-> NoId]
\* ToolMessage that carries no call identifier
ToolMessageUncorrelated(id, content) ==
    [role |-> "tool", content |-> content, tool_calls |-> <<>>, tool_call_id |-> NoId]

ToolMessage(id, content) ==
    [role |-> "tool", content |-> content, tool_calls |-> <<>>, tool_call_id |-> id]

\* one request as the backend received it
BackendCall(fn, msgs, tools, ok) ==
    [fn |-> fn, messages |-> msgs, tools |-> tools, ok |-> ok]

----------------------------------------------------------------------------
(* src/memchat/orchestrator.py *)

ToolCallEvent(timestamp, tool_name, arguments, result) ==
    [timestamp |-> timestamp, tool_name |-> tool_name, arguments |-> arguments,
     result |-> result]

\* the directory trees a run starts from
RunFsConfigs == {OutsideTree, OutsideTree @@ InsideTree(Bytes(<<99, 97>>), "outfile")}

\* the memory_dir argument: None, or a path
MemoryDirArgs == {[given |-> FALSE, dir |-> <<>>]} \cup {[given |-> TRUE, dir |-> d] : d \in MemDirs}

\* a run is started by a call of chat_run, from the command line by
\* _run_headless, which always gives chat_run a memory_dir, or from the
\* interactive UI, MemChatApp(memory_dir), which is mounted first
Init ==
    /\ fs \in RunFsConfigs
    /\ MEM_DIR \in MemDirs
    /\ t_call = NoCall
    /\ t_out = NoOutcome
    /\ entry \in {"chat_run", "_run_headless", "run_tui"}
    /\ pc = CASE entry = "_run_headless" -> "headless"
              [] entry = "run_tui" -> "mount"
              [] OTHER -> "start"
    /\ memory_dir \in MemoryDirArgs
    /\ entry = "_run_headless" => memory_dir.given
    /\ baseline_response = None
    /\ augmented_response = None
    /\ messages = <<>>
    /\ tool_events = <<>>
    /\ response_message = NoMessage
    /\ final_message = NoMessage
    /\ idx = 0
    /\ backend_log = <<>>
    /\ clock = 0
    /\ runs = <<>>

\* cli._run_headless, lines 83-95: the memory directory is made when absent,
\* then chat_run is called; when mkdir raises, the except clause of line 102
\* reports it and the process exits before chat_run is called
RunHeadless ==
    /\ pc = "headless"
    /\ fs' = MkdirFs(fs, memory_dir.dir)
    /\ pc' = IF mkdir(fs, memory_dir.dir).exc = "" THEN "start" ELSE "exit"
    /\ UNCHANGED <<MEM_DIR, toolVars, runs, entry, memory_dir, baseline_response,
                   augmented_response, messages, tool_events, response_message,
                   final_message, idx, backend_log, clock>>

\* cli._run_headless, lines 102-115: what chat_run raised is reported and the
\* process exits
RunHeadlessExcept ==
    /\ pc = "raised"
    /\ entry = "_run_headless"
    /\ pc' = "exit"
    /\ UNCHANGED <<fs, MEM_DIR, toolVars, runs, entry, memory_dir, baseline_response,
                   augmented_response, messages, tool_events, response_message,
                   final_message, idx, backend_log, clock>>

\* MemChatApp.on_mount, lines 93-112: a memory_dir that is given replaces
\* tools.MEM_DIR, and the directory tools.MEM_DIR names is made when absent,
\* outside any try: when mkdir raises, on_mount raises with MEM_DIR already
\* assigned, and no chat run is made. The mounted app makes a chat run with
\* _run_chat.
on_mount ==
    /\ pc = "mount"
    /\ MEM_DIR' = IF memory_dir.given THEN memory_dir.dir ELSE MEM_DIR
    /\ fs' = MkdirFs(fs, MEM_DIR')
    /\ pc' = IF mkdir(fs, MEM_DIR').exc = "" THEN "start" ELSE "exit"
    /\ UNCHANGED <<toolVars, runs, entry, memory_dir, baseline_response,
                   augmented_response, messages, tool_events, response_message,
                   final_message, idx, backend_log, clock>>

\* MemChatApp._run_chat, lines 221-229: chat_run is called with the app's
\* memory_dir, and what it raises is caught and returned as the error text of
\* both outputs
RunChatExcept ==
    /\ pc = "raised"
    /\ entry = "run_tui"
    /\ pc' = "exit"
    /\ UNCHANGED <<fs, MEM_DIR, toolVars, runs, entry, memory_dir, baseline_response,
                   augmented_response, messages, tool_events, response_message,
                   final_message, idx, backend_log, clock>>

\* chat_run, lines 45-53: OpenAI() raises when it has no API key; a memory_dir
\* that is given replaces tools.MEM_DIR
ChatRunStart ==
    /\ pc = "start"
    /\ \E constructed \in BOOLEAN :
         IF constructed
         THEN /\ pc' = "baseline"
              /\ MEM_DIR' = IF memory_dir.given THEN memory_dir.dir ELSE MEM_DIR
         ELSE /\ pc' = "raised"
              /\ UNCHANGED MEM_DIR
    /\ UNCHANGED <<fs, toolVars, runs, entry, memory_dir, baseline_response, augmented_response,
                   messages, tool_events, response_message, final_message, idx,
                   backend_log, clock>>

\* what _run_baseline_chat returns: the backend's content, or the error string
BaselineResult(ok, content) ==
    IF ok THEN OrEmpty(content)
    ELSE <<Lit("Error in baseline chat: ")>> \o BackendError

\* _run_baseline_chat
RunBaselineChat ==
    /\ pc = "baseline"
    /\ \E ok \in BOOLEAN, content \in Contents :
         /\ ~ok => content = None
         /\ baseline_response' = BaselineResult(ok, content)
         /\ backend_log' = Append(backend_log,
                                  BackendCall("baseline", <<UserMessage(PROMPT)>>, FALSE, ok))
    /\ pc' = "augmented"
    /\ UNCHANGED <<fs, MEM_DIR, toolVars, runs, entry, memory_dir, augmented_response, messages,
                   tool_events, response_message, final_message, idx, clock>>

\* the error string of the outer except of _run_augmented_chat
AugmentedError == <<Lit("Error in augmented chat: ")>> \o BackendError

\* where _run_augmented_chat goes after the initial response
AfterInitial(m) == IF m.tool_calls # <<>> THEN "dispatch" ELSE "done"

\* InitialResult with a placeholder for a response without text
InitialResultPlaceholder(m) ==
    IF Truthy(m.content) THEN m.content ELSE <<Lit("No response")>>

\* what the run returns when the initial response carries no tool call, line 170
InitialResult(m) == OrEmpty(m.content)

\* _run_augmented_chat, lines 84-108 and 168-174: the initial call
AugInitialCall ==
    /\ pc = "augmented"
    /\ tool_events' = <<>>
    /\ \/ \* the call raises
          /\ backend_log' = Append(backend_log,
                                   BackendCall("augmented", <<UserMessage(PROMPT)>>, TRUE, FALSE))
          /\ messages' = <<UserMessage(PROMPT)>>
          /\ augmented_response' = AugmentedError
          /\ pc' = "done"
          /\ UNCHANGED <<response_message, idx>>
       \/ \E m \in FirstResponses :
          /\ backend_log' = Append(backend_log,
                                   BackendCall("augmented", <<UserMessage(PROMPT)>>, TRUE, TRUE))
          /\ response_message' = m
          /\ messages' = <<UserMessage(PROMPT), AssistantMessage(m)>>
          /\ pc' = AfterInitial(m)
          /\ IF AfterInitial(m) = "dispatch"
             THEN idx' = 1 /\ UNCHANGED augmented_response
             ELSE augmented_response' = InitialResult(m) /\ UNCHANGED idx
    /\ UNCHANGED <<fs, MEM_DIR, toolVars, runs, entry, memory_dir, baseline_response, final_message,
                   clock>>

\* the result string of one tool call, lines 113-115 and 135-138
DispatchResult(f, memdir, tool_call) ==
    LET arguments == json_loads(tool_call.arguments)
        result == execute_tool_call(f, memdir, tool_call.name, arguments.val)
    IN  IF arguments.exc # ""
        THEN <<Lit("Error executing "), Lit(tool_call.name), Lit(": ")>> \o arguments.val
        ELSE IF result.exc # ""
        THEN <<Lit("Error executing "), Lit(tool_call.name), Lit(": ")>> \o result.val
        ELSE result.val

\* the arguments the event of one tool call records, lines 121 and 142
DispatchArguments(f, memdir, tool_call) ==
    LET arguments == json_loads(tool_call.arguments)
    IN  IF arguments.exc # "" THEN EmptyArgs
        ELSE IF execute_tool_call(f, memdir, tool_call.name, arguments.val).exc # ""
        THEN EmptyArgs
        ELSE arguments.val

\* the filesystem one tool call leaves
DispatchFs(f, memdir, tool_call) ==
    IF json_loads(tool_call.arguments).exc # "" THEN f
    ELSE ExecuteFs(f, memdir, tool_call.name)

\* AppendEvent that puts the newest event first
AppendEventFirst(events, event) == <<event>> \o events

\* the events after one tool call is resolved, lines 118-124 and 139-145
AppendEvent(events, event) == Append(events, event)

\* where the for loop goes after request i of n
AfterDispatch(i, n) == IF i = n THEN "followup" ELSE "dispatch"

\* the for loop without its inner except: a tool call that raises ends the run
\* in the outer except
DispatchToolCallAborts ==
    /\ pc = "dispatch"
    /\ LET tool_call == response_message.tool_calls[idx]
           result == DispatchResult(fs, MEM_DIR, tool_call)
           raises == \/ json_loads(tool_call.arguments).exc # ""
                     \/ execute_tool_call(fs, MEM_DIR, tool_call.name,
                                          json_loads(tool_call.arguments).val).exc # ""
       IN  IF raises
           THEN /\ augmented_response' = AugmentedError
                /\ pc' = "done"
                /\ UNCHANGED <<tool_events, messages, fs, clock, idx>>
           ELSE /\ tool_events' = AppendEvent(tool_events,
                                     ToolCallEvent(clock, tool_call.name,
                                         DispatchArguments(fs, MEM_DIR, tool_call), result))
                /\ messages' = Append(messages, ToolMessage(tool_call.id, result))
                /\ fs' = DispatchFs(fs, MEM_DIR, tool_call)
                /\ clock' = clock + 1
                /\ pc' = AfterDispatch(idx, Len(response_message.tool_calls))
                /\ idx' = idx + 1
                /\ UNCHANGED augmented_response
    /\ UNCHANGED <<MEM_DIR, toolVars, runs, entry, memory_dir, baseline_response,
                   response_message, final_message, backend_log>>

\* _run_augmented_chat, lines 109-153: one iteration of the for loop
DispatchToolCall ==
    /\ pc = "dispatch"
    /\ LET tool_call == response_message.tool_calls[idx]
           result == DispatchResult(fs, MEM_DIR, tool_call)
       IN  /\ tool_events' = AppendEvent(tool_events,
                                ToolCallEvent(clock, tool_call.name,
                                    DispatchArguments(fs, MEM_DIR, tool_call), result))
           /\ messages' = Append(messages, ToolMessage(tool_call.id, result))
           /\ fs' = DispatchFs(fs, MEM_DIR, tool_call)
    /\ clock' = clock + 1
    /\ pc' = AfterDispatch(idx, Len(response_message.tool_calls))
    /\ idx' = idx + 1
    /\ UNCHANGED <<MEM_DIR, toolVars, runs, entry, memory_dir, baseline_response, augmented_response,
                   response_message, final_message, backend_log>>

\* what the run returns after the follow-up response, line 166
FinalResult(m) == OrEmpty(m.content)

\* AfterFinal of a loop that asks the backend again while it requests tools
AfterFinalLoops(m) == IF m.tool_calls # <<>> THEN "augmented" ELSE "done"

\* where the run goes after the follow-up response: it returns, line 166
AfterFinal(m) == "done"

\* the follow-up call, tried again when it fails
AugFinalCallRetries ==
    /\ pc = "followup"
    /\ \/ \* the call raises
          /\ backend_log' = Append(backend_log, BackendCall("augmented", messages, TRUE, FALSE))
          /\ UNCHANGED <<augmented_response, pc, final_message>>
       \/ \E m \in FinalResponses :
          /\ backend_log' = Append(backend_log, BackendCall("augmented", messages, TRUE, TRUE))
          /\ final_message' = m
          /\ augmented_response' = FinalResult(m)
          /\ pc' = AfterFinal(m)
    /\ UNCHANGED <<fs, MEM_DIR, toolVars, runs, entry, memory_dir, baseline_response, messages,
                   tool_events, response_message, idx, clock>>

\* _run_augmented_chat, lines 155-166 and 172-174: the follow-up call
AugFinalCall ==
    /\ pc = "followup"
    /\ \/ \* the call raises
          /\ backend_log' = Append(backend_log, BackendCall("augmented", messages, TRUE, FALSE))
          /\ augmented_response' = AugmentedError
          /\ pc' = "done"
          /\ UNCHANGED final_message
       \/ \E m \in FinalResponses :
          /\ backend_log' = Append(backend_log, BackendCall("augmented", messages, TRUE, TRUE))
          /\ final_message' = m
          /\ augmented_response' = FinalResult(m)
          /\ pc' = AfterFinal(m)
    /\ UNCHANGED <<fs, MEM_DIR, toolVars, runs, entry, memory_dir, baseline_response, messages,
                   tool_events, response_message, idx, clock>>

Next ==
    \/ RunHeadless
    \/ RunHeadlessExcept
    \/ on_mount
    \/ RunChatExcept
    \/ ChatRunStart
    \/ RunBaselineChat
    \/ AugInitialCall
    \/ DispatchToolCall
    \/ AugFinalCall

Spec == Init /\ [][Next]_vars

----------------------------------------------------------------------------
(* Two chat_run invocations in one process, their steps interleaved *)

RunIds == {1, 2}

\* two memory directories that both exist: /m and /m/d
ConcurrentDirs == {<<"m">>, <<"m", "d">>}

\* the requests the backend makes of either run
ConcurrentRequests ==
    { Request("list_memory_files", Json(EmptyArgs)),
      Request("read_memory_file", Json(DictArgs(TRUE, StrPath(FALSE, <<"a">>)))) }

\* the assistant messages the backend answers the initial call of either run with
ConcurrentFirstResponses ==
    {[content |-> None, tool_calls |-> ToolCalls(1, reqs)] :
        reqs \in SeqsUpTo(ConcurrentRequests, MaxToolCalls)}

\* the assistant message the backend answers the follow-up call of either run with
ConcurrentFinalResponse == [content |-> <<Lit("the answer is 42")>>, tool_calls |-> <<>>]

\* no tool call of the run is under way
NoTool == [at |-> "", timestamp |-> 0, file_path |-> <<>>, walk |-> <<>>, files |-> <<>>]

\* the locals of a chat_run(prompt, model, memory_dir) that has not started;
\* tool holds those of the tool call under way and the line it has come to
NewRun(dir) ==
    [pc |-> "start", memory_dir |-> [given |-> TRUE, dir |-> dir],
     baseline_response |-> None, augmented_response |-> None, messages |-> <<>>,
     tool_events |-> <<>>, response_message |-> NoMessage, final_message |-> NoMessage,
     idx |-> 0, tool |-> NoTool]

\* the single run of Spec is not there
SingleRunOff ==
    /\ t_call = NoCall
    /\ t_out = NoOutcome
    /\ RunOff

singleVars == <<t_call, t_out, pc, entry, memory_dir, baseline_response, augmented_response,
                messages, tool_events, response_message, final_message, idx,
                backend_log>>

\* the directory trees interleaved runs start from: the populated one, and one
\* whose root /m holds the file a and nothing else, so that /m/d is absent
ConcurrentFsConfigs ==
    {OutsideTree @@ InsideTree(Bytes(<<99, 97>>), "none"),
     OutsideTree @@ (<<"m">> :> DirNode) @@ (<<"m", "a">> :> FileNode(Bytes(<<99, 97>>)))}

InitConcurrent ==
    /\ fs \in ConcurrentFsConfigs
    /\ MEM_DIR \in ConcurrentDirs
    /\ SingleRunOff
    /\ runs \in {[r \in RunIds |-> NewRun(dirs[r])] :
                    dirs \in {d \in [RunIds -> ConcurrentDirs] : d[1] # d[2]}}

\* chat_run of run r, lines 45-53: the given memory_dir replaces tools.MEM_DIR,
\* the one module global that every run's tool calls read
ChatRunStartOf(r) ==
    /\ runs[r].pc = "start"
    /\ \E constructed \in BOOLEAN :
         IF constructed
         THEN /\ runs' = [runs EXCEPT ![r].pc = "baseline"]
              /\ MEM_DIR' = IF runs[r].memory_dir.given THEN runs[r].memory_dir.dir
                            ELSE MEM_DIR
         ELSE /\ runs' = [runs EXCEPT ![r].pc = "raised"]
              /\ UNCHANGED MEM_DIR
    /\ UNCHANGED <<fs, singleVars, clock>>

\* _run_baseline_chat of run r
RunBaselineChatOf(r) ==
    /\ runs[r].pc = "baseline"
    /\ \E ok \in BOOLEAN :
         runs' = [runs EXCEPT ![r].pc = "augmented",
                              ![r].baseline_response =
                                  BaselineResult(ok, <<Lit("the answer is 42")>>)]
    /\ UNCHANGED <<fs, MEM_DIR, singleVars, clock>>

\* _run_augmented_chat of run r, lines 84-108 and 168-174: the initial call
AugInitialCallOf(r) ==
    /\ runs[r].pc = "augmented"
    /\ \/ \* the call raises
          runs' = [runs EXCEPT ![r].pc = "done",
                               ![r].messages = <<UserMessage(PROMPT)>>,
                               ![r].augmented_response = AugmentedError]
       \/ \E m \in ConcurrentFirstResponses :
          runs' = [runs EXCEPT ![r].pc = AfterInitial(m),
                               ![r].response_message = m,
                               ![r].messages = <<UserMessage(PROMPT), AssistantMessage(m)>>,
                               ![r].idx = IF AfterInitial(m) = "dispatch" THEN 1 ELSE @,
                               ![r].augmented_response =
                                   IF AfterInitial(m) = "dispatch" THEN @
                                   ELSE InitialResult(m)]
    /\ UNCHANGED <<fs, MEM_DIR, singleVars, clock>>

\* the tool call request run r is at
ToolCallOf(r) == runs[r].response_message.tool_calls[runs[r].idx]

\* lines 113-153, after execute_tool_call returned or raised: the result string,
\* the event with the timestamp line 110 took when the iteration began and the
\* arguments (an empty mapping when it raised), the tool-result message, and on
\* to the next request
ResolveToolCall(r, timestamp, outcome) ==
    LET tool_call == ToolCallOf(r)
        result == IF outcome.exc = "" THEN outcome.val
                  ELSE <<Lit("Error executing "), Lit(tool_call.name), Lit(": ")>>
                       \o outcome.val
        arguments == IF outcome.exc = "" THEN json_loads(tool_call.arguments).val
                     ELSE EmptyArgs
    IN  [runs EXCEPT
            ![r].tool_events =
                AppendEvent(@, ToolCallEvent(timestamp, tool_call.name, arguments, result)),
            ![r].messages = Append(@, ToolMessage(tool_call.id, result)),
            ![r].pc = AfterDispatch(runs[r].idx, Len(runs[r].response_message.tool_calls)),
            ![r].idx = @ + 1,
            ![r].tool = NoTool]

\* the request is resolved without MEM_DIR being read: its arguments are no
\* JSON, its name is no tool, or its path is missing or no string
NeedsNoRoot(tool_call) ==
    LET arguments == json_loads(tool_call.arguments)
    IN  \/ arguments.exc # ""
        \/ tool_call.name \notin {"list_memory_files", "read_memory_file"}
        \/ /\ tool_call.name = "read_memory_file"
           /\ \/ ~arguments.val.dict
              \/ ~PathTruthy(arguments.val.path)
              \/ arguments.val.path.t # "str"

\* the orders os.walk(top) can report the visible files of a tree in: those of
\* a directory come before those of the directories below it, and the order
\* among the entries of one directory is the one the filesystem gives
WalkOrders(f, top) ==
    LET visible == {p \in WalkFiles(f, top) : ~StartsWithDot(p[Len(p)])}
        n == Cardinality(visible)
    IN  {order \in [1..n -> visible] :
            /\ \A i, j \in 1..n : i # j => order[i] # order[j]
            /\ \A i, j \in 1..n :
                  (Parent(order[i]) # Parent(order[j])
                   /\ IsPrefix(Parent(order[i]), Parent(order[j]))) => i < j}

RECURSIVE SortedList(_)
\* sorted(files) for a list of relative paths, which may hold one path twice
SortedList(files) ==
    IF files = <<>> THEN <<>>
    ELSE LET i == CHOOSE k \in DOMAIN files :
                     \A j \in DOMAIN files :
                         ~CodesLess(StrCodes(files[j]), StrCodes(files[k]))
         IN  <<files[i]>>
             \o SortedList([k \in 1..(Len(files) - 1) |->
                               IF k < i THEN files[k] ELSE files[k + 1]])

\* what list_memory_files returns once its loop is over, line 28, or raises
\* when relative_to(root) of line 25 raised ValueError for full_path
ListResult(files, full_path, root) ==
    IF full_path # <<>>
    THEN Raised("ValueError",
                <<Lit("'"), PathPiece(StrPath(TRUE, full_path)),
                  Lit("' is not in the subpath of '"), PathPiece(StrPath(TRUE, root)),
                  Lit("' OR one path is relative and the other is absolute.")>>)
    ELSE LET sorted == SortedList(files)
         IN  Returned([i \in 1..Len(sorted) |-> StrPath(FALSE, sorted[i])])

\* _run_augmented_chat of run r, lines 109-110: one iteration of the for loop
\* begins with timestamp = datetime.now(); the value is kept for the event that
\* is made when the tool is done
DispatchToolCallOf(r) ==
    /\ runs[r].pc = "dispatch"
    /\ runs[r].tool.at = ""
    /\ runs' = [runs EXCEPT ![r].tool.timestamp = clock,
                            ![r].tool.at = "call"]
    /\ clock' = clock + 1
    /\ UNCHANGED <<fs, MEM_DIR, singleVars>>

\* _run_augmented_chat of run r, lines 113-115: the arguments are parsed and
\* execute_tool_call goes as far as the first time the tool reads
\* tools.MEM_DIR: MEM_DIR.exists() of tools.py line 15 for list_memory_files,
\* MEM_DIR / path of line 44 for read_memory_file. A call that reads no root is
\* done in this step. Every later read of that global is a step of its own,
\* for another run's chat_run may assign it in between.
ExecuteToolCallOf(r) ==
    /\ runs[r].tool.at = "call"
    /\ LET tool_call == ToolCallOf(r)
           arguments == json_loads(tool_call.arguments)
       IN  IF NeedsNoRoot(tool_call)
           THEN runs' = ResolveToolCall(r, runs[r].tool.timestamp,
                            IF arguments.exc # "" THEN arguments
                            ELSE execute_tool_call(fs, MEM_DIR, tool_call.name,
                                                   arguments.val))
           ELSE IF tool_call.name = "list_memory_files"
           THEN runs' = [runs EXCEPT
                            ![r].tool.at = IF Exists(fs, MEM_DIR) THEN "walk" ELSE "mkdir"]
           ELSE runs' = [runs EXCEPT
                            ![r].tool.at = "check",
                            ![r].tool.file_path = JoinPath(MEM_DIR, arguments.val.path)]
    /\ UNCHANGED <<fs, MEM_DIR, singleVars, clock>>

\* read_memory_file of run r, from line 48 on: MEM_DIR is read again for the
\* sandbox check of the file_path that line 44 made
ReadCheckOf(r) ==
    /\ runs[r].tool.at = "check"
    /\ LET path == json_loads(ToolCallOf(r).arguments).val.path
           content == read_memory_file_from(fs, runs[r].tool.file_path, MEM_DIR, path)
       IN  runs' = ResolveToolCall(r, runs[r].tool.timestamp, ExecuteRead(path, content))
    /\ UNCHANGED <<fs, MEM_DIR, singleVars, clock>>

\* list_memory_files of run r, line 16, after line 15 found no root: MEM_DIR is
\* read again and made, and the empty list is returned
ListMkdirOf(r) ==
    /\ runs[r].tool.at = "mkdir"
    /\ LET made == mkdir(fs, MEM_DIR)
       IN  runs' = ResolveToolCall(r, runs[r].tool.timestamp, ExecuteList(made))
    /\ fs' = MkdirFs(fs, MEM_DIR)
    /\ UNCHANGED <<MEM_DIR, singleVars, clock>>

\* list_memory_files of run r, line 20, after line 15 found the root: MEM_DIR
\* is read again and walked; without a visible file the loop is over at once
ListWalkOf(r) ==
    /\ runs[r].tool.at = "walk"
    /\ \E order \in WalkOrders(fs, MEM_DIR) :
         IF order = <<>>
         THEN runs' = ResolveToolCall(r, runs[r].tool.timestamp,
                          ExecuteList(ListResult(<<>>, <<>>, MEM_DIR)))
         ELSE runs' = [runs EXCEPT ![r].tool.at = "relative",
                                   ![r].tool.walk = order]
    /\ UNCHANGED <<fs, MEM_DIR, singleVars, clock>>

\* list_memory_files of run r, line 25, for the next file of the walk: MEM_DIR
\* is read again, and relative_to raises ValueError when the file does not lie
\* below it and gives "." when the file is MEM_DIR itself; after the last file
\* the sorted list is returned, line 28
ListRelativeOf(r) ==
    /\ runs[r].tool.at = "relative"
    /\ LET full_path == Head(runs[r].tool.walk)
           relative_path == SubSeq(full_path, Len(MEM_DIR) + 1, Len(full_path))
           files == Append(runs[r].tool.files,
                           IF relative_path = <<>> THEN <<".">> ELSE relative_path)
       IN  IF ~RelativeTo(full_path, MEM_DIR)
           THEN runs' = ResolveToolCall(r, runs[r].tool.timestamp,
                            ExecuteList(ListResult(files, full_path, MEM_DIR)))
           ELSE IF Tail(runs[r].tool.walk) = <<>>
           THEN runs' = ResolveToolCall(r, runs[r].tool.timestamp,
                            ExecuteList(ListResult(files, <<>>, MEM_DIR)))
           ELSE runs' = [runs EXCEPT ![r].tool.walk = Tail(@),
                                     ![r].tool.files = files]
    /\ UNCHANGED <<fs, MEM_DIR, singleVars, clock>>

\* _run_augmented_chat of run r, lines 155-166 and 172-174: the follow-up call
AugFinalCallOf(r) ==
    /\ runs[r].pc = "followup"
    /\ \/ \* the call raises
          runs' = [runs EXCEPT ![r].pc = "done",
                               ![r].augmented_response = AugmentedError]
       \/ runs' = [runs EXCEPT ![r].pc = AfterFinal(ConcurrentFinalResponse),
                               ![r].final_message = ConcurrentFinalResponse,
                               ![r].augmented_response =
                                   FinalResult(ConcurrentFinalResponse)]
    /\ UNCHANGED <<fs, MEM_DIR, singleVars, clock>>

NextConcurrent ==
    \E r \in RunIds :
        \/ ChatRunStartOf(r)
        \/ RunBaselineChatOf(r)
        \/ AugInitialCallOf(r)
        \/ DispatchToolCallOf(r)
        \/ ExecuteToolCallOf(r)
        \/ ReadCheckOf(r)
        \/ ListMkdirOf(r)
        \/ ListWalkOf(r)
        \/ ListRelativeOf(r)
        \/ AugFinalCallOf(r)

SpecConcurrent == InitConcurrent /\ [][NextConcurrent]_vars

----------------------------------------------------------------------------
(* Properties of the memory tools, checked under SpecTools *)

\* the path argument of the call being made
CallPath == t_call.arguments.path

\* the call being made reads a path given as a string
ReadsPath ==
    /\ t_call.fn \in {"read_memory_file", "execute_tool_call"}
    /\ t_call.tool_name = "read_memory_file"
    /\ t_call.arguments.dict
    /\ CallPath.t = "str"
    /\ PathTruthy(CallPath)

\* p is absolute or has a ".." segment
Traverses(p) == p.abs \/ \E i \in DOMAIN p.segs : p.segs[i] = ".."

\* the canonical form of p is neither the memory root nor below it
Escapes(f, memdir, p) ==
    ~IsPrefix(Resolve(f, memdir), Resolve(f, JoinPath(memdir, p)))

\* the texts of the files that lie outside the memory root
OutsideTexts(f, memdir) ==
    {ReadText(f[q].bytes).chars :
        q \in {r \in DOMAIN f : f[r].kind = "file" /\ ~IsPrefix(Resolve(f, memdir), r)}}

SandboxMessage(p) == <<Lit("Path outside memory directory: "), PathPiece(p)>>

\* C1: a path argument that is absolute or holds ".." and whose canonical form
\* lies outside the memory root makes read_memory_file raise the sandbox
\* violation, and makes execute_tool_call return the error line for it; no
\* text of a file outside the root is part of the result.
C1_TraversalIsRejected ==
    (ReadsPath /\ Traverses(CallPath) /\ Escapes(fs, MEM_DIR, CallPath)) =>
        /\ t_call.fn = "read_memory_file" =>
              t_out = Raised("ValueError", SandboxMessage(CallPath))
        /\ t_call.fn = "execute_tool_call" =>
              t_out = Returned(<<Lit("Error reading "), PathPiece(CallPath), Lit(": ")>>
                               \o SandboxMessage(CallPath))
        /\ \A i \in DOMAIN t_out.val :
              t_out.val[i].k = "text" => t_out.val[i].chars \notin OutsideTexts(fs, MEM_DIR)

\* C1 witness: execute_tool_call was given "../s" while /s exists above the
\* root, and returned the sandbox error line
C1_Witness ==
    /\ t_call.fn = "execute_tool_call"
    /\ t_call.tool_name = "read_memory_file"
    /\ CallPath = StrPath(FALSE, <<"..", "s">>)
    /\ MEM_DIR = <<"m">>
    /\ <<"m", "a">> \in DOMAIN fs
    /\ fs[<<"s">>].bytes = Bytes(<<83>>)
    /\ t_out.exc = ""
    /\ t_out.val[4] = Lit("Path outside memory directory: ")

\* C2, as claimed: execute_tool_call returns a string for every tool name,
\* argument value and state of the memory directory, and never raises
C2_ExecuteNeverRaises ==
    t_call.fn = "execute_tool_call" => t_out.exc = ""

\* the call being made is list_memory_files() and it returned
ListReturned ==
    /\ t_call.fn = "list_memory_files"
    /\ t_out.exc = ""

\* the call being made is read_memory_file(path) and it returned content
ReadReturned ==
    /\ t_call.fn = "read_memory_file"
    /\ t_out.exc = ""

\* C12, as claimed: every relative path list_memory_files returns, and every
\* path read_memory_file returns content for, has a canonical form (symlinks
\* and ".." resolved) that is the memory root or lies below it, for every
\* directory tree, symlinks included.
C12_PathsStayInside ==
    /\ ListReturned =>
          \A i \in DOMAIN t_out.val : ~Escapes(fs, MEM_DIR, t_out.val[i])
    /\ ReadReturned => ~Escapes(fs, MEM_DIR, CallPath)

\* the relative paths of the regular files in the memory root and in the
\* directories below it whose own name does not start with "."; a symlink to a
\* regular file counts as one
VisibleFiles(f, memdir) ==
    LET t == Stat(f, memdir).loc
    IN  {SubSeq(p, Len(t) + 1, Len(p)) :
            p \in {q \in DOMAIN f : /\ q # <<>>
                                    /\ IsPrefix(t, Parent(q))
                                    /\ IsFile(f, q)
                                    /\ ~StartsWithDot(q[Len(q)])}}

\* C13, as claimed: list_memory_files returns exactly the regular files whose
\* own name does not start with ".", each once, at any depth and also inside
\* a hidden directory, as relative paths in lexicographic order.
C13_ListsExactlyVisibleFiles ==
    ListReturned =>
        /\ {t_out.val[i].segs : i \in DOMAIN t_out.val} = VisibleFiles(fs, MEM_DIR)
        /\ Len(t_out.val) = Cardinality(VisibleFiles(fs, MEM_DIR))
        /\ \A i \in DOMAIN t_out.val :
              /\ ~t_out.val[i].abs
              /\ i > 1 => CodesLess(StrCodes(t_out.val[i - 1].segs),
                                    StrCodes(t_out.val[i].segs))

\* the call being made lists the memory directory, directly or as a tool call
ListCalled ==
    \/ t_call.fn = "list_memory_files"
    \/ t_call.fn = "execute_tool_call" /\ t_call.tool_name = "list_memory_files"

\* C14, as claimed: whatever the configured root is, list_memory_files never
\* fails: it leaves the root in place as a directory (creating it when it did
\* not exist), and on a root without entries it returns the empty list, which
\* execute_tool_call reports as "No memory files found."
C14_MissingRootIsCreated ==
    ListCalled =>
        /\ t_out.exc = ""
        /\ IsDir(fs, MEM_DIR)
        /\ WalkFiles(fs, MEM_DIR) = {} =>
              t_out.val = IF t_call.fn = "list_memory_files" THEN <<>>
                          ELSE <<Lit("No memory files found.")>>

\* the path of the call being made names a regular file inside the root that
\* holds what write_text(chars) left there
HoldsWritten(chars) ==
    /\ ReadsPath
    /\ ~Escapes(fs, MEM_DIR, CallPath)
    /\ IsFile(fs, JoinPath(MEM_DIR, CallPath))
    /\ fs[Stat(fs, JoinPath(MEM_DIR, CallPath)).loc].bytes = WriteTextBytes(chars)

\* C15, as claimed: after a text was written to a path inside the root,
\* read_memory_file of that path returns the very same text, and
\* execute_tool_call returns it behind its "Contents of" header.
C15_ReadReturnsWhatWasWritten ==
    \A chars \in Texts :
        HoldsWritten(chars) =>
            /\ t_call.fn = "read_memory_file" => t_out = Returned(<<TextPiece(chars)>>)
            /\ t_call.fn = "execute_tool_call" =>
                  t_out = Returned(<<Lit("Contents of "), PathPiece(CallPath), Lit(":\n\n"),
                                     TextPiece(chars)>>)

\* the call being made is execute_tool_call("read_memory_file", args) with a
\* mapping args that has no "path" entry
MissingPathCall ==
    /\ t_call.fn = "execute_tool_call"
    /\ t_call.tool_name = "read_memory_file"
    /\ t_call.arguments.dict
    /\ ~t_call.arguments.has_path

PathRequired == <<Lit("Error: 'path' parameter is required")>>

\* C16: execute_tool_call("read_memory_file", args) with a mapping that has no
\* "path" entry returns "Error: 'path' parameter is required", does not raise,
\* and leaves the filesystem as it was.
C16_MissingPathIsAnErrorString ==
    /\ [](MissingPathCall => t_out = Returned(PathRequired))
    /\ [][(MissingPathCall' /\ ~MissingPathCall) => fs' = fs]_vars

\* C16 witness: the call was made with {} on a populated root and returned the
\* error string
C16_Witness ==
    /\ MissingPathCall
    /\ t_call.arguments = EmptyArgs
    /\ <<"m", "a">> \in DOMAIN fs
    /\ t_out.exc = ""
    /\ t_out.val = PathRequired

\* the call being made is execute_tool_call with a name that is no tool
UnknownToolCall ==
    /\ t_call.fn = "execute_tool_call"
    /\ t_call.tool_name \notin {"list_memory_files", "read_memory_file"}

UnknownTool(name) == <<Lit("Error: Unknown tool '"), Lit(name), Lit("'")>>

\* C17: execute_tool_call with a tool name other than list_memory_files and
\* read_memory_file returns "Error: Unknown tool '<name>'" with the name it was
\* given, does not raise, and leaves the filesystem as it was.
C17_UnknownToolIsAnErrorString ==
    /\ [](UnknownToolCall => t_out = Returned(UnknownTool(t_call.tool_name)))
    /\ [][(UnknownToolCall' /\ ~UnknownToolCall) => fs' = fs]_vars

\* C17 witness: delete_file was asked for while the memory root /m did not
\* exist; the error string names delete_file and the root still does not exist
C17_Witness ==
    /\ UnknownToolCall
    /\ t_call.tool_name = "delete_file"
    /\ t_out = Returned(UnknownTool("delete_file"))
    /\ MEM_DIR = <<"m">>
    /\ <<"m">> \notin DOMAIN fs

\* the call being made is read_memory_file(path) with a string
ReadCalled ==
    /\ t_call.fn = "read_memory_file"
    /\ CallPath.t = "str"

\* the outcome is the exception exc whose message starts with msg
Fails(exc, msg) ==
    /\ t_out.exc = exc
    /\ t_out.val[1] = Lit(msg)

\* C20, as claimed: read_memory_file gives every path exactly one outcome, in
\* this order of precedence: the sandbox violation for a path that resolves
\* outside the root, whether or not it exists; not-found for a path inside
\* the root that does not exist; not-a-file for one that exists and is no
\* regular file, the root included; invalid encoding for a file that is no
\* UTF-8; and content in every other case and in no case but that.
C20_OneOutcomeByPrecedence ==
    ReadCalled =>
        LET file_path == JoinPath(MEM_DIR, CallPath)
        IN  IF Escapes(fs, MEM_DIR, CallPath)
            THEN Fails("ValueError", "Path outside memory directory: ")
            ELSE IF ~Stat(fs, file_path).ok
            THEN Fails("FileNotFoundError", "Memory file not found: ")
            ELSE IF fs[Stat(fs, file_path).loc].kind # "file"
            THEN Fails("ValueError", "Path is not a file: ")
            ELSE IF ~Utf8Decode(fs[Stat(fs, file_path).loc].bytes).ok
            THEN t_out.exc = "UnicodeDecodeError"
            ELSE t_out.exc = "" /\ t_out.val[1].k = "text"

\* this step is a call of one of the three functions of the core
CoreCallStep ==
    /\ t_call = NoCall
    /\ t_call'.fn \in {"list_memory_files", "read_memory_file", "execute_tool_call"}

\* this step lists the memory directory, directly or as a tool call
ListStep ==
    /\ CoreCallStep
    /\ t_call'.tool_name = "list_memory_files"

\* C21: a call of list_memory_files, read_memory_file or execute_tool_call,
\* whether it succeeds or fails, leaves every file, directory and symlink,
\* inside and outside the root, as it was; the one thing it can add is the root
\* directory, empty, and only a call that lists does so, when the root is
\* absent; a call that reads never creates it.
C21_StoreIsReadOnly ==
    [][CoreCallStep =>
          /\ \A p \in DOMAIN fs : p \in DOMAIN fs' /\ fs'[p] = fs[p]
          /\ \A p \in DOMAIN fs' \ DOMAIN fs :
                /\ ListStep
                /\ ~Exists(fs, MEM_DIR)
                /\ p = MEM_DIR
                /\ fs'[p] = DirNode
          /\ ~ListStep => fs' = fs]_vars

\* C21 witness: list_memory_files found no root and created it, empty, and the
\* file outside it is as it was
C21_Witness ==
    /\ ListCalled
    /\ t_out.exc = ""
    /\ MEM_DIR = <<"m">>
    /\ <<"m">> \in DOMAIN fs
    /\ <<"m", "a">> \notin DOMAIN fs
    /\ fs[<<"s">>] = FileNode(Bytes(<<83>>))

----------------------------------------------------------------------------
(* Properties of a run, checked under Spec *)

\* the most backend calls _run_augmented_chat makes: the initial and the follow-up one
MaxBackendCalls == 2
\* the most dispatch rounds _run_augmented_chat makes: its one for loop
MaxDispatchRounds == 1

\* the requests the backend received from _run_augmented_chat, in order
AugCalls == SelectSeq(backend_log, LAMBDA c : c.fn = "augmented")

\* the requests the backend received from _run_baseline_chat
BaselineCalls == SelectSeq(backend_log, LAMBDA c : c.fn = "baseline")

\* the augmented run is over and none of its backend calls failed
AugSucceeded ==
    /\ pc = "done"
    /\ \A i \in DOMAIN AugCalls : AugCalls[i].ok

\* the augmented run is over and its n-th backend call failed
AugFailedAt(n) ==
    /\ Len(AugCalls) >= n
    /\ ~AugCalls[n].ok

\* the last assistant message the run received
LastMessage == IF Len(AugCalls) = MaxBackendCalls THEN final_message ELSE response_message

\* the dispatch rounds made so far: the assistant messages whose requests were resolved
DispatchRounds ==
    Cardinality({i \in DOMAIN messages :
                    messages[i].role = "assistant" /\ messages[i].tool_calls # <<>>})

\* s is an error description of the augmented run
IsAugmentedError(s) == Len(s) >= 1 /\ s[1] = Lit("Error in augmented chat: ")

\* C3, as claimed: a follow-up response that carries tool call requests has them
\* dispatched too, so a run that ends without a failed backend call ends on a
\* response without tool calls, returns that response's content, and has logged
\* one event for every request of every response it received.
C3_FurtherRoundsDispatched ==
    AugSucceeded =>
        /\ LastMessage.tool_calls = <<>>
        /\ augmented_response = OrEmpty(LastMessage.content)
        /\ Len(tool_events) = Len(response_message.tool_calls) + Len(final_message.tool_calls)

\* the run ended on a turn whose response carries no tool call
EndedOnQuietTurn ==
    /\ Len(AugCalls) >= 1
    /\ AugCalls[Len(AugCalls)].ok
    /\ LastMessage.tool_calls = <<>>

\* the run made no more than the fixed number of backend calls and rounds
WithinLimits ==
    /\ Len(AugCalls) <= MaxBackendCalls
    /\ DispatchRounds <= MaxDispatchRounds

\* a run that is not over can take a step: every position but the for loop's
\* has a step whatever the state, and the for loop has a request left to resolve
NotStuck ==
    /\ pc \in {"headless", "mount", "start", "baseline", "augmented", "dispatch", "followup",
               "done", "raised", "exit"}
    /\ pc = "dispatch" => idx \in DOMAIN response_message.tool_calls

\* the steps a run can still take, at most
StepsLeft ==
    CASE pc \in {"headless", "mount"} -> MaxToolCalls + 5
      [] pc = "start"     -> MaxToolCalls + 4
      [] pc = "raised"    -> IF entry = "chat_run" THEN 0 ELSE 1
      [] pc = "baseline"  -> MaxToolCalls + 3
      [] pc = "augmented" -> MaxToolCalls + 2
      [] pc = "dispatch"  -> Len(response_message.tool_calls) - idx + 2
      [] pc = "followup"  -> 1
      [] OTHER            -> 0

\* C4, as claimed: backend calls and dispatch rounds stay within a fixed maximum,
\* and the run ends on a turn with no tool calls or at that maximum.
C4_EndsOnQuietTurnOrLimit ==
    /\ WithinLimits
    /\ NotStuck
    /\ pc = "done" => (EndedOnQuietTurn \/ Len(AugCalls) = MaxBackendCalls)

\* C4, amended: backend calls and dispatch rounds stay within a fixed maximum
\* (two calls, one round), a run that is not over can always step and every step
\* brings it closer to its end, and the run ends on a turn with no tool calls, at
\* that maximum, or on a backend call that failed.
C4_BoundedAndEnds ==
    /\ [](/\ WithinLimits
          /\ NotStuck
          /\ pc = "done" =>
                \/ EndedOnQuietTurn
                \/ Len(AugCalls) = MaxBackendCalls
                \/ AugFailedAt(Len(AugCalls)))
    /\ [][StepsLeft' < StepsLeft]_vars

\* C4 witness: the backend asked for tools in both of its answers and the run
\* is over after the second
C4_Witness ==
    /\ pc = "done"
    /\ Len(AugCalls) = MaxBackendCalls
    /\ AugCalls[MaxBackendCalls].ok
    /\ response_message.tool_calls # <<>>
    /\ final_message.tool_calls # <<>>

\* C5, as claimed: when the last response the limit allows still carries tool
\* call requests, the augmented output is an error description, not that
\* message's content; the events are those of the first round.
C5_TurnLimitIsAnError ==
    (AugSucceeded /\ Len(AugCalls) = MaxBackendCalls /\ final_message.tool_calls # <<>>) =>
        /\ IsAugmentedError(augmented_response)
        /\ Len(tool_events) = Len(response_message.tool_calls)

\* event i and tool-result message i belong to request i of the first response
EventsMatchRequests ==
    /\ Len(tool_events) <= Len(response_message.tool_calls)
    /\ \A i \in DOMAIN tool_events :
          /\ tool_events[i].tool_name = response_message.tool_calls[i].name
          /\ tool_events[i].timestamp = i - 1
          /\ messages[2 + i].role = "tool"
          /\ messages[2 + i].tool_call_id = response_message.tool_calls[i].id
          /\ messages[2 + i].content = tool_events[i].result
    /\ (pc \in {"followup", "done"} /\ Len(AugCalls) >= 1 /\ AugCalls[1].ok) =>
          Len(tool_events) = Len(response_message.tool_calls)

\* C6: the event list is the sequence of the requests the loop dispatched, in the
\* order the backend returned them, one event per request (two equal requests
\* give two events), and it only ever grows at its end.
C6_EventsInDispatchOrder ==
    /\ []EventsMatchRequests
    /\ [][IsPrefix(tool_events, tool_events')]_vars

\* C6 witness: two requests, read_memory_file before list_memory_files, gave two
\* events in that order
C6_Witness ==
    /\ pc = "done"
    /\ Len(tool_events) = 2
    /\ tool_events[1].tool_name = "read_memory_file"
    /\ tool_events[2].tool_name = "list_memory_files"

\* the initial response came and carries no tool call
QuietFirstResponse ==
    /\ pc = "done"
    /\ AugCalls[1].ok
    /\ response_message.tool_calls = <<>>

\* C7, as claimed: a first response without tool calls means one backend call,
\* no event, and an output equal to that response's content.
C7_ContentUnchanged ==
    QuietFirstResponse =>
        /\ Len(AugCalls) = 1
        /\ tool_events = <<>>
        /\ augmented_response = response_message.content

\* C7, amended: a first response without tool calls means one backend call, no
\* event, and an output equal to that response's content when it has one, and
\* to the empty string when its content is None.
C7_ContentOrEmpty ==
    QuietFirstResponse =>
        /\ Len(AugCalls) = 1
        /\ tool_events = <<>>
        /\ response_message.content # None => augmented_response = response_message.content
        /\ response_message.content = None => augmented_response = EmptyStr

\* C7 witness: the first response carried a text and no tool call
C7_Witness ==
    /\ QuietFirstResponse
    /\ response_message.content = <<Lit("the answer is 42")>>
    /\ augmented_response = <<Lit("the answer is 42")>>

\* C8: a failed backend call of the augmented run is its last one (no retry, no
\* further call), the output is the error description, and the events are the
\* ones appended before the call: none for the initial call, one per request of
\* the first response, as sent in the failed request, for the follow-up call.
C8_BackendFailureEndsRun ==
    \A n \in DOMAIN AugCalls :
        ~AugCalls[n].ok =>
            /\ n = Len(AugCalls)
            /\ pc = "done"
            /\ augmented_response = AugmentedError
            /\ n = 1 => tool_events = <<>>
            /\ n = 2 =>
                  /\ Len(tool_events) = Len(response_message.tool_calls)
                  /\ AugCalls[n].messages = messages
                  /\ \A i \in DOMAIN tool_events :
                        tool_events[i].result = AugCalls[n].messages[2 + i].content

\* C8 witness: the follow-up call failed after two events had been appended
C8_Witness ==
    /\ pc = "done"
    /\ AugFailedAt(2)
    /\ Len(tool_events) = 2
    /\ augmented_response = AugmentedError

\* s is an error description of the baseline call
IsBaselineError(s) == Len(s) >= 1 /\ s[1] = Lit("Error in baseline chat: ")

\* the baseline call is sent once, with the prompt alone and no tool schema; it
\* leaves no event, message or augmented output behind, whatever its outcome;
\* the baseline output tells the outcome of the baseline call alone, and a run
\* that is over has made both calls
CallsIndependent ==
    /\ Len(BaselineCalls) <= 1
    /\ \A i \in DOMAIN backend_log :
          /\ backend_log[i].fn = "baseline" =>
                /\ ~backend_log[i].tools
                /\ backend_log[i].messages = <<UserMessage(PROMPT)>>
          /\ backend_log[i].fn = "augmented" => backend_log[i].tools
    /\ pc \in {"start", "baseline", "augmented"} =>
          /\ tool_events = <<>>
          /\ messages = <<>>
          /\ augmented_response = None
          /\ AugCalls = <<>>
    /\ pc \in {"augmented", "dispatch", "followup", "done"} =>
          /\ Len(BaselineCalls) = 1
          /\ IsBaselineError(baseline_response) <=> ~BaselineCalls[1].ok
    /\ pc = "done" =>
          /\ Len(AugCalls) >= 1
          /\ IsAugmentedError(augmented_response) <=> AugFailedAt(Len(AugCalls))

\* the baseline step changes nothing the augmented run reads or returns, and the
\* augmented steps leave the baseline output alone
CallsFrame ==
    /\ pc = "baseline" =>
          UNCHANGED <<tool_events, messages, augmented_response, fs, MEM_DIR,
                      response_message, final_message>>
    /\ pc \in {"augmented", "dispatch", "followup"} =>
          baseline_response' = baseline_response

\* C9, as claimed: the two calls are independent (the baseline call carries no
\* tool schema and leaves no event; a failed baseline call changes the baseline
\* output only, so that the augmented output and the events are what they would
\* be had it succeeded; a failed augmented call changes the augmented output
\* only), and chat_run always returns the triple, that is, it never raises.
C9_AlwaysReturnsTriple ==
    /\ [](CallsIndependent /\ pc # "raised")
    /\ [][CallsFrame]_vars

\* r is the result of a tool call that failed
IsToolError(r) ==
    /\ Len(r) >= 1
    /\ r[1] \in {Lit("Error reading "), Lit("Error executing "),
                 Lit("Error: Unknown tool '"), Lit("Error: 'path' parameter is required")}

\* C10: every request resolved so far, failed or not, has exactly one event, at
\* its own position, whose result is the string its execution gives (the error
\* string when it fails), and a tool-result message with that string and its call
\* id; a run whose first response carries requests resolves all of them and
\* goes on to the follow-up call with those messages.
C10_ToolFailureDoesNotEndRun ==
    /\ \A i \in DOMAIN tool_events :
          LET tool_call == response_message.tool_calls[i]
              result == DispatchResult(fs, MEM_DIR, tool_call)
          IN  /\ tool_events[i].tool_name = tool_call.name
              /\ tool_events[i].result = result
              /\ messages[2 + i] = ToolMessage(tool_call.id, result)
    /\ (pc = "done" /\ AugCalls[1].ok /\ response_message.tool_calls # <<>>) =>
          /\ Len(tool_events) = Len(response_message.tool_calls)
          /\ Len(AugCalls) = MaxBackendCalls
          /\ AugCalls[MaxBackendCalls].messages = messages
          /\ Len(messages) = 2 + Len(tool_events)

\* C10 witness: read_memory_file of a path that does not exist gave one event
\* with the not-found error, and the run went on to return the follow-up answer
C10_Witness ==
    /\ pc = "done"
    /\ Len(tool_events) = 1
    /\ tool_events[1].tool_name = "read_memory_file"
    /\ tool_events[1].result =
          <<Lit("Error reading "), PathPiece(StrPath(FALSE, <<"zz">>)), Lit(": "),
            Lit("Memory file not found: "), PathPiece(StrPath(FALSE, <<"zz">>))>>
    /\ IsToolError(tool_events[1].result)
    /\ Len(AugCalls) = MaxBackendCalls
    /\ augmented_response = <<Lit("the answer is 42")>>

\* the tool-result messages among msgs
ToolResults(msgs) == SelectSeq(msgs, LAMBDA m : m.role = "tool")

\* msgs is the user message, the assistant message with its requests, and one
\* tool-result message per request, in request order, each with the call id of
\* its request and the result of the event at its position
FollowUpMessages(msgs) ==
    /\ Len(msgs) = 2 + Len(response_message.tool_calls)
    /\ msgs[1].role = "user"
    /\ msgs[1].content = PROMPT
    /\ msgs[2].role = "assistant"
    /\ msgs[2].content = response_message.content
    /\ msgs[2].tool_calls = response_message.tool_calls
    /\ \A i \in DOMAIN response_message.tool_calls :
          /\ msgs[2 + i].role = "tool"
          /\ msgs[2 + i].tool_call_id = response_message.tool_calls[i].id
          /\ msgs[2 + i].content = tool_events[i].result

\* C18: the messages sent with the follow-up backend call are the user message,
\* the assistant message, and one tool-result message per request of the
\* preceding turn, in request order, the i-th with the call id of the i-th
\* request and the result of the i-th event; there are always as many events
\* as tool-result messages.
C18_FollowUpCarriesEveryResult ==
    /\ \A n \in DOMAIN AugCalls : n > 1 => FollowUpMessages(AugCalls[n].messages)
    /\ Len(tool_events) = Len(ToolResults(messages))

\* C18 witness: the follow-up call was sent with the results of two requests
C18_Witness ==
    /\ Len(AugCalls) = 2
    /\ Len(response_message.tool_calls) = 2
    /\ Len(AugCalls[2].messages) = 4
    /\ AugCalls[2].messages[4].tool_call_id = <<1, 2>>
    /\ AugCalls[2].messages[4].content = tool_events[2].result

\* C19, as claimed: every event records the tool name of its request and the
\* argument mapping the backend gave with it (whenever the backend gave one,
\* that is, whenever the argument string is JSON), also when executing the
\* request fails.
C19_EventRecordsRequestAsGiven ==
    \A i \in DOMAIN tool_events :
        LET tool_call == response_message.tool_calls[i]
            given == json_loads(tool_call.arguments)
        IN  /\ tool_events[i].tool_name = tool_call.name
            /\ given.exc = "" => tool_events[i].arguments = given.val

----------------------------------------------------------------------------
(* Properties of interleaved runs, checked under SpecConcurrent *)

\* the result run r's i-th request has when it is resolved in run r's own
\* memory directory
OwnResult(r, i) ==
    DispatchResult(fs, runs[r].memory_dir.dir, runs[r].response_message.tool_calls[i])

\* C11, as claimed: with two runs given different memory directories and their
\* steps interleaved in any order, every tool call of each run is resolved
\* against that run's own memory directory.
C11_OwnMemoryDirectory ==
    \A r \in DOMAIN runs :
        \A i \in DOMAIN runs[r].tool_events :
            runs[r].tool_events[i].result = OwnResult(r, i)

====
